---------------------------- MODULE Spec2Model ----------------------------
(***************************************************************************)
(* Peers, IpBlocks and PeerSets of nca/CoreDS/Peer.py.                     *)
(*                                                                         *)
(* A point of an interval is a pair <<tag, val>>: tag 4 or 6 is an         *)
(* IPNetworkAddress of that IP version, tag 0 is a plain Python int (the   *)
(* flat index space of PeerSet).  An interval is a pair <<start, end>> of  *)
(* points, an interval set is a sequence of intervals.  The address        *)
(* spaces and the pod capacity are scaled down; every other number is the  *)
(* program's.                                                              *)
(***************************************************************************)
EXTENDS Integers, Sequences, FiniteSets, TLC

\* ------------------------------------------------------------- scale
\* int(ip_network('0.0.0.0/0').broadcast_address), 2^32-1 in the program
ipv4_highest_number == 3
\* int(ip_network('::/0').broadcast_address), 2^128-1 in the program
ipv6_highest_number == 1
\* PeerSet.max_num_of_pods, 10000 in the program
max_num_of_pods == 2
\* how many different concrete endpoints (pods) exist
NumPeers == 3

\* how many profiles an endpoint is given
MaxProfiles == 3
\* how long an owner name is
MaxNameLen == 4

gap_width == 5
min_ipv4_index == 0
max_ipv4_index == min_ipv4_index + ipv4_highest_number
\* variant: the IPv6 segment starts right after the IPv4 segment
min_ipv6_index_no_gap == max_ipv4_index + 1
min_ipv6_index == max_ipv4_index + gap_width
max_ipv6_index == min_ipv6_index + ipv6_highest_number
min_pod_index == max_ipv6_index + gap_width
max_pod_index == min_pod_index + max_num_of_pods - 1

\* ------------------------------------------------------------- helpers
Min(a, b) == IF a <= b THEN a ELSE b
Max(a, b) == IF a >= b THEN a ELSE b

RECURSIVE SetToSeq(_)
SetToSeq(S) ==
    IF S = {} THEN <<>>
    ELSE LET x == CHOOSE y \in S : TRUE IN <<x>> \o SetToSeq(S \ {x})

\* ------------------------------------------------------------- IPNetworkAddress
HighestOf(ver) == IF ver = 4 THEN ipv4_highest_number ELSE ipv6_highest_number

Addr(ver, n) == <<ver, n>>
Idx(n) == <<0, n>>

\* __lt__ / __le__: same version by value, else IPv4 < IPv6
PLt(a, b) == IF a[1] = b[1] THEN a[2] < b[2] ELSE a[1] < b[1]
PLe(a, b) == IF a[1] = b[1] THEN a[2] <= b[2] ELSE a[1] < b[1]
PMin(a, b) == IF PLe(a, b) THEN a ELSE b
PMax(a, b) == IF PLe(a, b) THEN b ELSE a

\* __add__ / __sub__: an address that leaves the family's range raises
\* AddressValueError inside, and the operand itself is returned
PAdd(a, k) ==
    IF a[1] = 0 THEN <<0, a[2] + k>>
    ELSE IF a[2] + k < 0 \/ a[2] + k > HighestOf(a[1]) THEN a
    ELSE <<a[1], a[2] + k>>
PSub(a, k) ==
    IF a[1] = 0 THEN <<0, a[2] - k>>
    ELSE IF a[2] - k < 0 \/ a[2] - k > HighestOf(a[1]) THEN a
    ELSE <<a[1], a[2] - k>>

\* ------------------------------------------------------------- CanonicalIntervalSet
\* sorted, pairwise disjoint, never touching intervals
IvOverlaps(x, y) == PLe(y[1], x[2]) /\ PLe(x[1], y[2])
IvTouches(x, y) ==
    \/ PLt(y[2], x[1]) /\ x[1] = PAdd(y[2], 1)
    \/ PLt(x[2], y[1]) /\ y[1] = PAdd(x[2], 1)
IvMergeable(x, y) == IvOverlaps(x, y) \/ IvTouches(x, y)

\* add_interval: one pass over the sorted intervals, absorbing every
\* interval that overlaps or touches the new one
AddInterval(ivs, iv) ==
    LET before == SelectSeq(ivs, LAMBDA x : PLt(x[2], iv[1]) /\ ~IvTouches(x, iv))
        after  == SelectSeq(ivs, LAMBDA x : PLt(iv[2], x[1]) /\ ~IvTouches(x, iv))
        mid    == SelectSeq(ivs, LAMBDA x : IvMergeable(x, iv))
        merged == IF mid = <<>> THEN iv
                  ELSE <<PMin(iv[1], mid[1][1]), PMax(iv[2], mid[Len(mid)][2])>>
    IN before \o <<merged>> \o after

\* what is left of interval x once the hole is cut out of it
IvMinus(x, hole) ==
    IF ~IvOverlaps(x, hole) THEN <<x>>
    ELSE (IF PLt(x[1], hole[1]) THEN <<(<<x[1], PSub(hole[1], 1)>>)>> ELSE <<>>)
         \o (IF PLt(hole[2], x[2]) THEN <<(<<PAdd(hole[2], 1), x[2]>>)>> ELSE <<>>)

RECURSIVE AddHole(_, _)
AddHole(ivs, hole) ==
    IF ivs = <<>> THEN <<>>
    ELSE IvMinus(Head(ivs), hole) \o AddHole(Tail(ivs), hole)

RECURSIVE IvsUnion(_, _)
IvsUnion(a, b) ==
    IF b = <<>> THEN a ELSE IvsUnion(AddInterval(a, Head(b)), Tail(b))

RECURSIVE IvsDifference(_, _)
IvsDifference(a, b) ==
    IF b = <<>> THEN a ELSE IvsDifference(AddHole(a, Head(b)), Tail(b))

\* the parts of the intervals of b that lie inside interval x
RECURSIVE IvIntersectAll(_, _)
IvIntersectAll(x, b) ==
    IF b = <<>> THEN <<>>
    ELSE (IF IvOverlaps(x, Head(b))
          THEN <<(<<PMax(x[1], Head(b)[1]), PMin(x[2], Head(b)[2])>>)>>
          ELSE <<>>) \o IvIntersectAll(x, Tail(b))

RECURSIVE IvsIntersect(_, _)
IvsIntersect(a, b) ==
    IF a = <<>> THEN <<>>
    ELSE IvIntersectAll(Head(a), b) \o IvsIntersect(Tail(a), b)

IvsOverlaps(a, b) ==
    \E i \in 1..Len(a) : \E j \in 1..Len(b) : IvOverlaps(a[i], b[j])

IvsContainedIn(a, b) ==
    \A i \in 1..Len(a) : \E j \in 1..Len(b) :
        PLe(b[j][1], a[i][1]) /\ PLe(a[i][2], b[j][2])


\* ------------------------------------------------------------- IpBlock
\* ipaddress.summarize_address_range, as get_cidr_list calls it: the CIDRs
\* <<version, network address, prefix length>> that cover first..last
AddrBits(ver) == CHOOSE w \in 0..16 : 2^w > HighestOf(ver) /\ (w = 0 \/ 2^(w-1) <= HighestOf(ver))
BitLength(n) == CHOOSE k \in 0..17 : 2^k > n /\ (k = 0 \/ 2^(k-1) <= n)
CountRighthandZeroBits(n, bits) ==
    IF n = 0 THEN bits
    ELSE CHOOSE k \in 0..bits : n % (2^k) = 0 /\ (k = bits \/ n % (2^(k+1)) # 0)

RECURSIVE SummarizeAddressRange(_, _, _)
SummarizeAddressRange(ver, first, last) ==
    IF first > last THEN <<>>
    ELSE LET nbits == Min(CountRighthandZeroBits(first, AddrBits(ver)),
                          BitLength(last - first + 1) - 1)
         IN <<(<<ver, first, AddrBits(ver) - nbits>>)>>
            \o SummarizeAddressRange(ver, first + 2^nbits, last)

RECURSIVE GetCidrList(_)
GetCidrList(ivs) ==
    IF ivs = <<>> THEN <<>>
    ELSE SummarizeAddressRange(Head(ivs)[1][1], Head(ivs)[1][2], Head(ivs)[2][2])
         \o GetCidrList(Tail(ivs))

\* A peer is a record: kind "pod" is a concrete endpoint known by its full
\* name (here a number, ordered as the names are), kind "ipb" an IpBlock
\* with its interval_set and its name (a CIDR list string, here the list).
\* namespace is the namespace's name, "" for None.
Pod(n) == [kind |-> "pod", id |-> n, ivs |-> <<>>, name |-> <<>>, namespace |-> ""]
ConcretePeers == {Pod(n) : n \in 1..NumPeers}
IsIpBlock(p) == p.kind = "ipb"

\* IpBlock(): no interval, the name is the (empty) CIDR list string
IpBlockEmpty == [kind |-> "ipb", id |-> 0, ivs |-> <<>>, name |-> <<>>, namespace |-> ""]
\* IpBlock(interval=iv): the interval is appended, then the name is taken
IpBlockOfInterval(iv) ==
    [kind |-> "ipb", id |-> 0, ivs |-> <<iv>>, name |-> GetCidrList(<<iv>>), namespace |-> ""]

\* canonical_form: the name, after the namespace's name and '_' if there
\* is a namespace; a string, here the sequence of its parts
CanonicalForm(b) ==
    IF b.namespace = "" THEN <<b.name>> ELSE <<b.namespace, "_", b.name>>

\* in-place |=, &=, -= of the interval set; the name is left as it was
IpbOr(a, b) == [a EXCEPT !.ivs = IvsUnion(a.ivs, b.ivs)]
IpbAnd(a, b) == [a EXCEPT !.ivs = IvsIntersect(a.ivs, b.ivs)]
IpbSub(a, b) == [a EXCEPT !.ivs = IvsDifference(a.ivs, b.ivs)]

FullInterval(ver) == <<Addr(ver, 0), Addr(ver, HighestOf(ver))>>

GetAllIpsBlock(exclude_ipv6, exclude_ipv4) ==
    LET r4 == IF exclude_ipv4 THEN IpBlockEmpty
              ELSE [IpBlockEmpty EXCEPT !.ivs = AddInterval(<<>>, FullInterval(4))]
    IN IF exclude_ipv6 THEN r4
       ELSE [r4 EXCEPT !.ivs = AddInterval(r4.ivs, FullInterval(6))]

RECURSIVE IpCountIvs(_)
IpCountIvs(ivs) ==
    IF ivs = <<>> THEN 0
    ELSE Head(ivs)[2][2] - Head(ivs)[1][2] + 1 + IpCountIvs(Tail(ivs))
IpCount(b) == IpCountIvs(b.ivs)

\* split(): one IpBlock per range
Split(b) == [i \in 1..Len(b.ivs) |-> IpBlockOfInterval(b.ivs[i])]

\* ------------------------------------------------------------- PeerSet as a set
\* ClusterEP.__eq__ (same class, same full name); an IpBlock is equal to
\* another by its interval set
PeerEq(p, q) ==
    /\ p.kind = q.kind
    /\ IF IsIpBlock(p) THEN p.ivs = q.ivs ELSE p.id = q.id

\* set.__contains__, set.add, set.remove, set.__or__ by hash and ==
RawContains(S, p) == \E q \in S : PeerEq(q, p)
SetAdd(S, p) == IF RawContains(S, p) THEN S ELSE S \cup {p}
SetRemove(S, p) == {q \in S : ~PeerEq(q, p)}
SetUnion(S, T) == S \cup {q \in T : ~RawContains(S, q)}

RECURSIVE SetRemoveAll(_, _)
SetRemoveAll(S, peers) ==
    IF peers = <<>> THEN S ELSE SetRemoveAll(SetRemove(S, Head(peers)), Tail(peers))

GetSetWithoutIpBlock(S) == {p \in S : ~IsIpBlock(p)}
IpBlocksOf(S) == {p \in S : IsIpBlock(p)}

RECURSIVE UnionAll(_, _)
UnionAll(res, blocks) ==
    IF blocks = <<>> THEN res
    ELSE UnionAll(IpbOr(res, Head(blocks)), Tail(blocks))

GetIpBlockCanonicalForm(S) == UnionAll(IpBlockEmpty, SetToSeq(IpBlocksOf(S)))

\* the assertion of PeerSet.__init__, __ior__ and __or__
CapacityOk(S) == Cardinality(GetSetWithoutIpBlock(S)) <= max_num_of_pods

\* PeerSet(s): the members with an empty ordering cache
PeerSetOf(S) == [members |-> S, sorted_peer_list |-> <<>>, last_size |-> 0]

\* IpBlock.get_peer_set
GetPeerSet(b) == IF b.ivs # <<>> THEN {b} ELSE {}

\* ------------------------------------------------------------- disjoint_ip_blocks
\* One overlapping block of the loop of _add_interval_to_list.  interval is
\* the block being added, list the non-overlapping blocks so far, to_add
\* the intersections cut out of them, idx the place of the block met.
\* variant: the block met is left whole, only interval loses the intersection
OverlapStepKeepWhole(interval, list, to_add, idx) ==
    [interval |-> IpbSub(interval, IpbAnd(list[idx], interval)),
     list |-> list, to_add |-> to_add]

\* variant: the intersection is split off but not removed from the block met
OverlapStepNoShrink(interval, list, to_add, idx) ==
    LET intersection == IpbAnd(list[idx], interval)
    IN [interval |-> IpbSub(interval, intersection), list |-> list,
        to_add |-> IF list[idx].ivs # intersection.ivs
                   THEN Append(to_add, intersection) ELSE to_add]

OverlapStep(interval, list, to_add, idx) ==
    LET ip_block == list[idx]
        intersection == IpbAnd(ip_block, interval)
        changed == ip_block.ivs # intersection.ivs
    IN [interval |-> IpbSub(interval, intersection),
        list |-> IF changed
                 THEN [list EXCEPT ![idx] = IpbSub(ip_block, intersection)]
                 ELSE list,
        to_add |-> IF changed THEN Append(to_add, intersection) ELSE to_add]

\* the loop from position idx on: blocks that do not overlap are passed
\* over, and the loop ends early once nothing of interval is left
RECURSIVE AddIntervalLoop(_, _, _, _)
AddIntervalLoop(interval, list, to_add, idx) ==
    IF idx > Len(list) THEN [interval |-> interval, list |-> list, to_add |-> to_add]
    ELSE IF ~IvsOverlaps(list[idx].ivs, interval.ivs)
    THEN AddIntervalLoop(interval, list, to_add, idx + 1)
    ELSE LET r == OverlapStep(interval, list, to_add, idx)
         IN IF r.interval.ivs = <<>> THEN r
            ELSE AddIntervalLoop(r.interval, r.list, r.to_add, idx + 1)

\* variant: what is left of interval after the loop is not appended
AddIntervalToListLoseRest(interval, non_overlapping_interval_list) ==
    LET r == AddIntervalLoop(interval, non_overlapping_interval_list, <<>>, 1)
    IN r.list \o r.to_add

AddIntervalToList(interval, non_overlapping_interval_list) ==
    LET r == AddIntervalLoop(interval, non_overlapping_interval_list, <<>>, 1)
    IN r.list \o Split(r.interval) \o r.to_add

RECURSIVE AddAllToList(_, _)
AddAllToList(ip_blocks, blocks_with_no_overlap) ==
    IF ip_blocks = <<>> THEN blocks_with_no_overlap
    ELSE AddAllToList(Tail(ip_blocks),
                      AddIntervalToList(Head(ip_blocks), blocks_with_no_overlap))

RECURSIVE AddAllToSet(_, _)
AddAllToSet(res, blocks) ==
    IF blocks = <<>> THEN res
    ELSE AddAllToSet(SetAdd(res, Head(blocks)), Tail(blocks))

\* every order sorted(ip_blocks_set, key=ip_count) can give: the sort is
\* stable, and blocks of equal count keep the set's iteration order
RECURSIVE Orders(_)
Orders(S) ==
    IF S = {} THEN {<<>>}
    ELSE UNION {{<<x>> \o rest : rest \in Orders(S \ {x})} :
                  x \in {y \in S : \A z \in S : IpCount(y) <= IpCount(z)}}

\* variant: an empty result is returned as it is
DisjointFromOrderNoSubstitute(ip_blocks, exclude_ipv6) ==
    AddAllToSet({}, AddAllToList(ip_blocks, <<>>))

\* disjoint_ip_blocks once the sort has produced ip_blocks
DisjointFromOrder(ip_blocks, exclude_ipv6) ==
    LET blocks_with_no_overlap == AddAllToList(ip_blocks, <<>>)
        res == AddAllToSet({}, blocks_with_no_overlap)
    IN IF res = {} THEN SetAdd(res, GetAllIpsBlock(exclude_ipv6, FALSE)) ELSE res

\* ------------------------------------------------------------- PeerSet algebra
\* __ior__ / __or__: the plain set union, wrapped in PeerSet(...)
OrMembers(A, B) == SetUnion(A, B)

\* variant: the plain set intersection of the members
AndMembersRaw(A, B) == {p \in A : RawContains(B, p)}

\* __iand__: IpBlocks by interval intersection, the rest by set intersection
AndMembers(A, B) ==
    LET self_ip_block == GetIpBlockCanonicalForm(A)
        other_ip_block == GetIpBlockCanonicalForm(B)
        res_peer_set_ip_block == GetPeerSet(IpbAnd(self_ip_block, other_ip_block))
        res_without_ip_block == GetSetWithoutIpBlock(A) \cap GetSetWithoutIpBlock(B)
    IN SetUnion(res_without_ip_block, res_peer_set_ip_block)

\* variant: the plain set difference of the members
SubMembersRaw(A, B) == {p \in A : ~RawContains(B, p)}

\* __isub__
SubMembers(A, B) ==
    LET self_ip_block == GetIpBlockCanonicalForm(A)
        other_ip_block == GetIpBlockCanonicalForm(B)
        res_peer_set_ip_block == GetPeerSet(IpbSub(self_ip_block, other_ip_block))
        res_without_ip_block == GetSetWithoutIpBlock(A) \ GetSetWithoutIpBlock(B)
    IN SetUnion(res_without_ip_block, res_peer_set_ip_block)

\* variant: equality by raw membership
PeerSetEqRaw(A, B) ==
    /\ \A p \in A : RawContains(B, p)
    /\ \A p \in B : RawContains(A, p)

\* __eq__
PeerSetEq(A, B) ==
    IF GetSetWithoutIpBlock(A) # GetSetWithoutIpBlock(B) THEN FALSE
    ELSE GetIpBlockCanonicalForm(A).ivs = GetIpBlockCanonicalForm(B).ivs

\* variant: an IpBlock is in the set when the members together contain it
ContainsInUnion(S, item) ==
    IF IsIpBlock(item)
    THEN IvsContainedIn(item.ivs, GetIpBlockCanonicalForm(S).ivs)
    ELSE RawContains(S, item)

\* __contains__: an IpBlock is in the set when one IpBlock member contains
\* it, any other peer by set membership
Contains(S, item) ==
    IF IsIpBlock(item)
    THEN \E peer \in S : IsIpBlock(peer) /\ IvsContainedIn(item.ivs, peer.ivs)
    ELSE RawContains(S, item)

\* ------------------------------------------------------------- state
VARIABLES
    P,       \* a PeerSet object: members, sorted_peer_list, last_size...
    raised,  \* the exception the last operation ended with, or "none"
    call,    \* the index bridge: the subset, its intervals, the set read back
    inA,     \* first operand of a binary operation
    inB,     \* second operand
    excl,    \* the exclude_ipv6 argument
    pc,      \* which operation has been applied to the operands
    out,     \* its result(s)
    ipb,     \* an IpBlock object: interval_set and name
    heap     \* the IpBlock objects operands refer to: the interval_set of each

vars == <<P, raised, call, inA, inB, excl, pc, out, ipb, heap>>

NoCall == [stage |-> "idle", subset |-> {}, intervals |-> <<>>, back |-> {}]
NoOut == [r1 |-> {}, r2 |-> {}, eq |-> FALSE]

\* ------------------------------------------------------------- operands
AllIntervals(ver) ==
    {<<Addr(ver, ab[1]), Addr(ver, ab[2])>> :
        ab \in {x \in (0..HighestOf(ver)) \X (0..HighestOf(ver)) : x[1] <= x[2]}}

\* the loop of add_cidr over the exceptions: subnet_of gives a truth value
\* that is dropped, and raises TypeError for a network of the other IP
\* version; the holes made before that stay
RECURSIVE AddExceptions(_, _, _)
AddExceptions(ivs, cidr, exceptions) ==
    IF exceptions = <<>> THEN [err |-> "none", ivs |-> ivs]
    ELSE IF Head(exceptions)[1][1] # cidr[1][1] THEN [err |-> "TypeError", ivs |-> ivs]
    ELSE AddExceptions(AddHole(ivs, Head(exceptions)), cidr, Tail(exceptions))

\* add_cidr(cidr, exceptions), a CIDR given as the interval it denotes
AddCidr(b, cidr, exceptions) ==
    [b EXCEPT !.ivs = AddExceptions(AddInterval(b.ivs, cidr), cidr, exceptions).ivs]

\* IpBlock(cidr, exceptions): the ranges are set, then the name is taken
IpBlockOfCidr(cidr, exceptions) ==
    LET b == AddCidr(IpBlockEmpty, cidr, exceptions)
    IN [b EXCEPT !.name = GetCidrList(b.ivs)]

\* the IpBlocks the operands are made of: every single range, the empty
\* block, the block of all addresses and a block with a hole
BlockCands ==
    {IpBlockOfInterval(iv) : iv \in AllIntervals(4) \cup AllIntervals(6)}
      \cup {IpBlockEmpty, GetAllIpsBlock(FALSE, FALSE),
            IpBlockOfCidr(FullInterval(4), <<(<<Addr(4, 1), Addr(4, 1)>>)>>)}

UpToOne(U) == {{}} \cup {{x} : x \in U}
UpToTwo(U) == {{}} \cup {{x, y} : x \in U, y \in U}

\* ------------------------------------------------------------- disjoint_ip_blocks
InitDisjoint ==
    /\ P = PeerSetOf({}) /\ raised = "none" /\ call = NoCall
    /\ inA \in UpToTwo(BlockCands)
    /\ inB \in UpToOne(BlockCands)
    /\ excl \in BOOLEAN
    /\ pc = "input"
    /\ out = NoOut
    /\ ipb = IpBlockEmpty
    /\ heap = <<>>

ApplyDisjoint ==
    /\ pc = "input"
    /\ \E ip_blocks \in Orders(SetUnion(inA, inB)) :
          out' = [NoOut EXCEPT !.r1 = DisjointFromOrder(ip_blocks, excl)]
    /\ pc' = "disjoint"
    /\ UNCHANGED <<heap, P, raised, call, inA, inB, excl, ipb>>

NextDisjoint == ApplyDisjoint

SpecDisjoint == InitDisjoint /\ [][NextDisjoint]_vars

\* ------------------------------------------------------------- claim vocabulary
\* the addresses (or indices) an interval set covers, as a plain set
RECURSIVE PointsOfIvs(_)
PointsOfIvs(ivs) ==
    IF ivs = <<>> THEN {}
    ELSE {<<Head(ivs)[1][1], n>> : n \in Head(ivs)[1][2]..Head(ivs)[2][2]}
         \cup PointsOfIvs(Tail(ivs))
PointsOf(b) == PointsOfIvs(b.ivs)
Addresses(S) == UNION {PointsOf(b) : b \in IpBlocksOf(S)}
AllAddresses(exclude_ipv6) ==
    {Addr(4, n) : n \in 0..ipv4_highest_number}
      \cup (IF exclude_ipv6 THEN {} ELSE {Addr(6, n) : n \in 0..ipv6_highest_number})

\* ------------------------------------------------------------- A | B, A & B, A - B, A == B
\* the concrete members of the operands: none, some shared, some not, and
\* together more than the capacity
PodsOfA == {{}, {Pod(1), Pod(2)}}
PodsOfB == {{}, {Pod(1)}, {Pod(NumPeers)}, {Pod(1), Pod(2)}}

InitAlgebra ==
    /\ P = PeerSetOf({}) /\ raised = "none" /\ call = NoCall
    /\ \E pods \in PodsOfA : \E blocks \in UpToTwo(BlockCands) : inA = pods \cup blocks
    /\ \E pods \in PodsOfB : \E blocks \in UpToOne(BlockCands) : inB = pods \cup blocks
    /\ CapacityOk(inA) /\ CapacityOk(inB)
    /\ excl = FALSE
    /\ pc = "input"
    /\ out = NoOut
    /\ ipb = IpBlockEmpty
    /\ heap = <<>>

\* variant: the PeerSet(...) that wraps the result asserts nothing
FinishUnchecked(op, members) ==
    /\ pc' = op
    /\ raised' = "none" /\ out' = [NoOut EXCEPT !.r1 = members]
    /\ UNCHANGED <<heap, P, call, inA, inB, excl, ipb>>

\* the result of a binary operator, or AssertionError when the PeerSet(...)
\* that wraps the result holds too many concrete peers
Finish(op, members) ==
    /\ pc' = op
    /\ IF CapacityOk(members)
       THEN raised' = "none" /\ out' = [NoOut EXCEPT !.r1 = members]
       ELSE raised' = "AssertionError" /\ out' = NoOut
    /\ UNCHANGED <<heap, P, call, inA, inB, excl, ipb>>

ApplyOr == pc = "input" /\ Finish("or", OrMembers(inA, inB))

ApplyAnd == pc = "input" /\ Finish("and", AndMembers(inA, inB))

ApplySub == pc = "input" /\ Finish("sub", SubMembers(inA, inB))

ApplyEq ==
    /\ pc = "input"
    /\ pc' = "eq"
    /\ out' = [NoOut EXCEPT !.eq = PeerSetEq(inA, inB)]
    /\ UNCHANGED <<heap, P, raised, call, inA, inB, excl, ipb>>

\* item in A, for an item taken from B
ApplyContains ==
    /\ pc = "input"
    /\ \E item \in inB :
          out' = [NoOut EXCEPT !.r1 = {item}, !.eq = Contains(inA, item)]
    /\ pc' = "in"
    /\ UNCHANGED <<heap, P, raised, call, inA, inB, excl, ipb>>

\* A & B beside A - (A - B)
ApplyLaw ==
    /\ pc = "input"
    /\ pc' = "law"
    /\ out' = [NoOut EXCEPT !.r1 = AndMembers(inA, inB),
                            !.r2 = SubMembers(inA, SubMembers(inA, inB))]
    /\ UNCHANGED <<heap, P, raised, call, inA, inB, excl, ipb>>

NextAlgebra == ApplyOr \/ ApplyAnd \/ ApplySub \/ ApplyEq \/ ApplyContains \/ ApplyLaw

SpecAlgebra == InitAlgebra /\ [][NextAlgebra]_vars

\* ------------------------------------------------------------- the ordering cache
\* sorted(..., key=by_full_name) of the concrete members
RECURSIVE SortByFullName(_)
SortByFullName(S) ==
    IF S = {} THEN <<>>
    ELSE LET first == CHOOSE p \in S : \A q \in S : p.id <= q.id
         IN <<first>> \o SortByFullName(S \ {first})

\* update_sorted_peer_list_if_needed: rebuilt only when len(self) differs
\* from the size at the last rebuild
UpdateSortedPeerListIfNeeded(ps) ==
    IF ps.last_size # Cardinality(ps.members)
    THEN [ps EXCEPT !.sorted_peer_list = SortByFullName(GetSetWithoutIpBlock(ps.members)),
                    !.last_size = Cardinality(ps.members)]
    ELSE ps

\* __hash__: the ordering is refreshed if the size has changed, and the
\* value hashed is the full names of sorted_peer_list joined by ','; the
\* string stands for its hash
HashInput(ps) ==
    LET l == UpdateSortedPeerListIfNeeded(ps).sorted_peer_list
    IN [i \in 1..Len(l) |-> l[i].id]

\* ------------------------------------------------------------- the index bridge
RECURSIVE AddIntervals(_, _)
AddIntervals(res, ivs) ==
    IF ivs = <<>> THEN res ELSE AddIntervals(AddInterval(res, Head(ivs)), Tail(ivs))

\* the first loop of get_peer_interval_of: the positions of the peers of
\* sorted_peer_list that are in peer_set
RECURSIVE PodIntervals(_, _, _, _)
PodIntervals(res, sorted_peer_list, index, peer_set) ==
    IF index >= Len(sorted_peer_list) THEN res
    ELSE PodIntervals(
            IF RawContains(peer_set, sorted_peer_list[index + 1])
            THEN AddInterval(res, <<Idx(min_pod_index + index), Idx(min_pod_index + index)>>)
            ELSE res,
            sorted_peer_list, index + 1, peer_set)

\* one range of an IpBlock, moved into its segment
CidrToIndices(cidr) ==
    IF cidr[1][1] = 4
    THEN <<Idx(min_ipv4_index + cidr[1][2]), Idx(min_ipv4_index + cidr[2][2])>>
    ELSE <<Idx(min_ipv6_index + cidr[1][2]), Idx(min_ipv6_index + cidr[2][2])>>

RECURSIVE IpBlockIntervals(_, _)
IpBlockIntervals(res, blocks) ==
    IF blocks = <<>> THEN res
    ELSE IpBlockIntervals(
            AddIntervals(res, [i \in 1..Len(Head(blocks).ivs) |-> CidrToIndices(Head(blocks).ivs[i])]),
            Tail(blocks))

\* get_peer_interval_of, on a PeerSet whose ordering has been refreshed
GetPeerIntervalOf(ps, peer_set) ==
    IpBlockIntervals(PodIntervals(<<>>, ps.sorted_peer_list, 0, peer_set),
                     SetToSeq(IpBlocksOf(peer_set)))

\* get_all_peers_and_ip_blocks_interval: the three segments, added one by
\* one to an empty interval set
GetAllPeersAndIpBlocksInterval ==
    AddInterval(
        AddInterval(
            AddInterval(<<>>, <<Idx(min_ipv4_index), Idx(max_ipv4_index)>>),
            <<Idx(min_ipv6_index), Idx(max_ipv6_index)>>),
        <<Idx(min_pod_index), Idx(max_pod_index)>>)

\* list[ind] of Python: a negative index counts from the end
PyIndexOk(list, ind) == -Len(list) <= ind /\ ind < Len(list)
PyIndex(list, ind) == IF ind >= 0 THEN list[ind + 1] ELSE list[Len(list) + ind + 1]

\* what one interval of indices gives in get_peer_set_by_indices: the peers
\* appended to peer_list, or the exception raised
PeersOfInterval(ps, interval) ==
    LET s == interval[1][2]
        e == interval[2][2]
    IN IF e <= max_ipv4_index
       THEN IF s - min_ipv4_index < 0
            THEN [err |-> "AddressValueError", peers |-> {}]
            ELSE [err |-> "none",
                  peers |-> {IpBlockOfInterval(<<Addr(4, s - min_ipv4_index),
                                                 Addr(4, e - min_ipv4_index)>>)}]
       ELSE IF e <= max_ipv6_index
       THEN IF s - min_ipv6_index < 0 \/ e - min_ipv6_index < 0
            THEN [err |-> "AddressValueError", peers |-> {}]
            ELSE [err |-> "none",
                  peers |-> {IpBlockOfInterval(<<Addr(6, s - min_ipv6_index),
                                                 Addr(6, e - min_ipv6_index)>>)}]
       ELSE IF ~(e <= max_pod_index)
       THEN [err |-> "AssertionError", peers |-> {}]
       ELSE LET curr_pods_max_ind == Cardinality(ps.members) - 1
                range == Min(s - min_pod_index, curr_pods_max_ind)
                           .. Min(e - min_pod_index, curr_pods_max_ind)
            IN IF \E ind \in range : ~PyIndexOk(ps.sorted_peer_list, ind)
               THEN [err |-> "IndexError", peers |-> {}]
               ELSE [err |-> "none",
                     peers |-> {PyIndex(ps.sorted_peer_list, ind) : ind \in range}]

\* get_peer_set_by_indices, on a PeerSet whose ordering has been refreshed:
\* the first exception met, else PeerSet(set(peer_list)) with its assertion
GetPeerSetByIndices(ps, peer_interval_set) ==
    LET rs == [i \in 1..Len(peer_interval_set) |-> PeersOfInterval(ps, peer_interval_set[i])]
        bad == {i \in 1..Len(rs) : rs[i].err # "none"}
        peers == UNION {rs[i].peers : i \in 1..Len(rs)}
    IN IF bad # {} THEN [err |-> rs[CHOOSE i \in bad : \A j \in bad : i <= j].err, peers |-> {}]
       ELSE IF ~CapacityOk(peers) THEN [err |-> "AssertionError", peers |-> {}]
       ELSE [err |-> "none", peers |-> peers]

\* ------------------------------------------------------------- indices to peers
\* the PeerSets the conversion is asked of: up to max_num_of_pods of the
\* concrete peers, with or without an IpBlock
BridgeSets ==
    {pods \cup blocks :
        pods \in {s \in SUBSET ConcretePeers : CapacityOk(s)},
        blocks \in {{}, {GetAllIpsBlock(FALSE, FALSE)}}}

\* the interval sets it is given: every interval of indices from one below
\* the first segment to one above the last, alone or after the index of
\* the first IPv4 address
IndexIntervals ==
    {<<Idx(se[1]), Idx(se[2])>> :
        se \in {x \in (min_ipv4_index - 1 .. max_pod_index + 1)
                          \X (min_ipv4_index - 1 .. max_pod_index + 1) : x[1] <= x[2]}}

IndexIntervalSets ==
    {<<iv>> : iv \in IndexIntervals}
      \cup {<< <<Idx(min_ipv4_index), Idx(min_ipv4_index)>>, iv >> :
               iv \in {x \in IndexIntervals : x[1][2] > min_ipv4_index + 1}}

InitBridge ==
    /\ \E s \in BridgeSets : P = PeerSetOf(s)
    /\ raised = "none"
    /\ \E ivs \in IndexIntervalSets :
          call = [stage |-> "input", subset |-> {}, intervals |-> ivs, back |-> {}]
    /\ inA = {} /\ inB = {} /\ excl = FALSE /\ pc = "bridge" /\ out = NoOut
    /\ ipb = IpBlockEmpty
    /\ heap = <<>>

\* P.get_peer_set_by_indices(intervals)
ApplyGetPeerSetByIndices ==
    /\ pc = "bridge" /\ call.stage = "input"
    /\ P' = UpdateSortedPeerListIfNeeded(P)
    /\ LET r == GetPeerSetByIndices(P', call.intervals)
       IN /\ raised' = r.err
          /\ call' = [call EXCEPT !.stage = "byindices", !.back = r.peers]
    /\ UNCHANGED <<heap, inA, inB, excl, pc, out, ipb>>

NextBridge == ApplyGetPeerSetByIndices

SpecBridge == InitBridge /\ [][NextBridge]_vars

\* ------------------------------------------------------------- filter_ipv6_blocks
\* variant: every IpBlock is cut to the mask, overlapping or not
FilteredMembersNoTest(members, peers_to_remove, ip_blocks_mask) ==
    AddAllToSet(GetSetWithoutIpBlock(members),
                [i \in 1..Len(peers_to_remove) |-> IpbAnd(peers_to_remove[i], ip_blocks_mask)])

\* the members after filter_ipv6_blocks, peers_to_remove being the IpBlocks
\* in the order the set gave them
FilteredMembers(members, peers_to_remove, ip_blocks_mask) ==
    LET overlapping == SelectSeq(peers_to_remove,
                           LAMBDA peer : IvsOverlaps(peer.ivs, ip_blocks_mask.ivs))
        peers_to_add == [i \in 1..Len(overlapping) |->
                           IpbAnd(overlapping[i], ip_blocks_mask)]
    IN AddAllToSet(SetRemoveAll(members, peers_to_remove), peers_to_add)

\* the masks: all of IPv4, all of IPv6, one IPv4 range, IPv4 with a hole,
\* and no address
MaskCands ==
    {GetAllIpsBlock(TRUE, FALSE), GetAllIpsBlock(FALSE, TRUE),
     IpBlockOfInterval(<<Addr(4, 1), Addr(4, 2)>>),
     IpBlockOfCidr(FullInterval(4), <<(<<Addr(4, 1), Addr(4, 1)>>)>>),
     IpBlockEmpty}

InitFilter ==
    /\ \E pods \in {{}, {Pod(1), Pod(2)}} : \E blocks \in UpToTwo(BlockCands) :
          P = PeerSetOf(pods \cup blocks)
    /\ raised = "none" /\ call = NoCall
    /\ \E mask \in MaskCands : inA = {mask}
    /\ inB = {} /\ excl = FALSE
    /\ pc = "input"
    /\ out = NoOut
    /\ ipb = IpBlockEmpty
    /\ heap = <<>>

\* P.filter_ipv6_blocks(mask), the members before the call kept in out
ApplyFilterIpv6Blocks ==
    /\ pc = "input"
    /\ \E ip_blocks_mask \in inA : \E peers_to_remove \in Orders(IpBlocksOf(P.members)) :
          P' = [P EXCEPT !.members = FilteredMembers(P.members, peers_to_remove, ip_blocks_mask)]
    /\ out' = [NoOut EXCEPT !.r1 = P.members]
    /\ pc' = "filter"
    /\ UNCHANGED <<heap, raised, call, inA, inB, excl, ipb>>

NextFilter == ApplyFilterIpv6Blocks

SpecFilter == InitFilter /\ [][NextFilter]_vars

\* ------------------------------------------------------------- a PeerSet's life
\* the peers and the operand sets the operations are called with
LifeBlocks == {GetAllIpsBlock(FALSE, FALSE)}
LifeUniverse == ConcretePeers \cup LifeBlocks
LifeOperands == {{Pod(1)}, {Pod(NumPeers)}} \cup {{b} : b \in LifeBlocks}
ConstructArgs == {{}, {Pod(1), Pod(2)}, ConcretePeers} \cup {{b} : b \in LifeBlocks}
Masks == {GetAllIpsBlock(TRUE, FALSE)}

Init ==
    /\ P = PeerSetOf({})
    /\ raised = "none"
    /\ call = NoCall
    /\ inA = {} /\ inB = {} /\ excl = FALSE /\ pc = "life" /\ out = NoOut
    /\ ipb = IpBlockEmpty
    /\ heap = <<>>

Harness == <<inA, inB, excl, pc, out, ipb, heap>>

\* P = PeerSet(s): the assertion of __init__ stops an oversized set
Construct(s) ==
    /\ IF CapacityOk(s)
       THEN P' = PeerSetOf(s) /\ raised' = "none"
       ELSE P' = P /\ raised' = "AssertionError"
    /\ call' = NoCall
    /\ UNCHANGED Harness

\* P.add(p): set.add, inherited as it is
Add(p) ==
    /\ P' = [P EXCEPT !.members = SetAdd(P.members, p)]
    /\ raised' = "none"
    /\ call' = NoCall
    /\ UNCHANGED Harness

\* P.remove(p): set.remove, KeyError for a peer that is not there
Remove(p) ==
    /\ IF RawContains(P.members, p)
       THEN P' = [P EXCEPT !.members = SetRemove(P.members, p)] /\ raised' = "none"
       ELSE P' = P /\ raised' = "KeyError"
    /\ call' = NoCall
    /\ UNCHANGED Harness

\* P |= other: set.__ior__ updates P itself, then PeerSet(...) of it is
\* built and asserted; P is rebound only when that succeeds
IOr(other) ==
    LET updated == [P EXCEPT !.members = SetUnion(P.members, other)]
    IN /\ IF CapacityOk(updated.members)
          THEN P' = PeerSetOf(updated.members) /\ raised' = "none"
          ELSE P' = updated /\ raised' = "AssertionError"
       /\ call' = NoCall
       /\ UNCHANGED Harness

\* P = P | other
Or(other) ==
    /\ IF CapacityOk(OrMembers(P.members, other))
       THEN P' = PeerSetOf(OrMembers(P.members, other)) /\ raised' = "none"
       ELSE P' = P /\ raised' = "AssertionError"
    /\ call' = NoCall
    /\ UNCHANGED Harness

\* P &= other, P -= other: the result is a new PeerSet(...) | PeerSet
Rebind(members) ==
    /\ IF CapacityOk(members)
       THEN P' = PeerSetOf(members) /\ raised' = "none"
       ELSE P' = P /\ raised' = "AssertionError"
    /\ call' = NoCall
    /\ UNCHANGED Harness

IAnd(other) == Rebind(AndMembers(P.members, other))
ISub(other) == Rebind(SubMembers(P.members, other))

\* P = P & other, P = P - other: self.copy() comes first, with the
\* assertion of the PeerSet it builds
And(other) ==
    IF CapacityOk(P.members) THEN Rebind(AndMembers(P.members, other))
    ELSE P' = P /\ raised' = "AssertionError" /\ call' = NoCall /\ UNCHANGED Harness
Sub(other) ==
    IF CapacityOk(P.members) THEN Rebind(SubMembers(P.members, other))
    ELSE P' = P /\ raised' = "AssertionError" /\ call' = NoCall /\ UNCHANGED Harness

\* P = P.copy(): the members, and the ordering cache as it is
Copy ==
    /\ IF CapacityOk(P.members) THEN P' = P /\ raised' = "none"
       ELSE P' = P /\ raised' = "AssertionError"
    /\ call' = NoCall
    /\ UNCHANGED Harness

\* P.filter_ipv6_blocks(mask): every IpBlock is removed; the copies cut to
\* the mask are added in the order the set was iterated in
FilterIpv6Blocks(ip_blocks_mask) ==
    /\ \E peers_to_remove \in Orders(IpBlocksOf(P.members)) :
          P' = [P EXCEPT !.members = FilteredMembers(P.members, peers_to_remove, ip_blocks_mask)]
    /\ raised' = "none"
    /\ call' = NoCall
    /\ UNCHANGED Harness

\* hash(P): refreshes the ordering when the size has changed
Hash ==
    /\ P' = UpdateSortedPeerListIfNeeded(P)
    /\ raised' = "none"
    /\ UNCHANGED <<call, Harness>>

\* P.get_peer_interval_of(peer_set)
CallGetPeerIntervalOf(peer_set) ==
    /\ P' = UpdateSortedPeerListIfNeeded(P)
    /\ call' = [stage |-> "interval", subset |-> peer_set,
                intervals |-> GetPeerIntervalOf(P', peer_set), back |-> {}]
    /\ raised' = "none"
    /\ UNCHANGED Harness

\* P.get_peer_set_by_indices(intervals), with the intervals just computed
CallGetPeerSetByIndices ==
    /\ call.stage = "interval"
    /\ P' = UpdateSortedPeerListIfNeeded(P)
    /\ LET r == GetPeerSetByIndices(P', call.intervals)
       IN /\ raised' = r.err
          /\ call' = [call EXCEPT !.stage = "back", !.back = r.peers]
    /\ UNCHANGED Harness

\* PeerSet.get_all_peers_and_ip_blocks_interval()
CallGetAllPeersAndIpBlocksInterval ==
    /\ call' = [stage |-> "domain", subset |-> {},
                intervals |-> GetAllPeersAndIpBlocksInterval, back |-> {}]
    /\ raised' = "none"
    /\ UNCHANGED <<P, Harness>>

Next ==
    \/ \E s \in ConstructArgs : Construct(s)
    \/ \E p \in LifeUniverse : Add(p)
    \/ \E p \in LifeUniverse : Remove(p)
    \/ \E other \in LifeOperands : IOr(other)
    \/ \E other \in LifeOperands : Or(other)
    \/ \E other \in LifeOperands : IAnd(other)
    \/ \E other \in LifeOperands : ISub(other)
    \/ \E other \in LifeOperands : And(other)
    \/ \E other \in LifeOperands : Sub(other)
    \/ Copy
    \/ \E mask \in Masks : FilterIpv6Blocks(mask)
    \/ Hash
    \/ \E peer_set \in SUBSET P.members : CallGetPeerIntervalOf(peer_set)
    \/ CallGetPeerSetByIndices
    \/ CallGetAllPeersAndIpBlocksInterval

Spec == Init /\ [][Next]_vars

\* ------------------------------------------------------------- add_cidr
\* the networks ip_network() can give: aligned ranges of 2^k addresses
Cidrs(ver) ==
    {iv \in AllIntervals(ver) :
        LET n == iv[2][2] - iv[1][2] + 1
        IN (\E k \in 0..AddrBits(ver) : n = 2^k) /\ iv[1][2] % n = 0}
AllCidrs == Cidrs(4) \cup Cidrs(6)

\* the exceptions argument: none, one or two networks
ExceptionLists ==
    {<<>>} \cup {<<e>> : e \in AllCidrs} \cup {<<e1, e2>> : e1 \in AllCidrs, e2 \in AllCidrs}

InitAddCidr ==
    /\ P = PeerSetOf({}) /\ raised = "none" /\ call = NoCall
    /\ inA \in AllCidrs
    /\ inB \in ExceptionLists
    /\ excl = FALSE
    /\ pc = "input"
    /\ out = NoOut
    /\ ipb \in {IpBlockEmpty, IpBlockOfInterval(<<Addr(4, 0), Addr(4, 0)>>)}
    /\ heap = <<>>

\* ipb.add_cidr(cidr, exceptions)
ApplyAddCidr ==
    /\ pc = "input"
    /\ LET r == AddExceptions(AddInterval(ipb.ivs, inA), inA, inB)
       IN ipb' = [ipb EXCEPT !.ivs = r.ivs] /\ raised' = r.err
    /\ pc' = "add_cidr"
    /\ UNCHANGED <<heap, P, call, inA, inB, excl, out>>

NextAddCidr == ApplyAddCidr

SpecAddCidr == InitAddCidr /\ [][NextAddCidr]_vars

\* ------------------------------------------------------------- a + k, a - k
AllAddrs ==
    {Addr(4, n) : n \in 0..ipv4_highest_number} \cup {Addr(6, n) : n \in 0..ipv6_highest_number}

\* the int operand: from below minus the IPv4 space to above it
Steps == -(ipv4_highest_number + 1) .. (ipv4_highest_number + 1)

InitAddress ==
    /\ P = PeerSetOf({}) /\ raised = "none" /\ call = NoCall
    /\ inA \in AllAddrs
    /\ inB \in Steps
    /\ excl = FALSE
    /\ pc = "input"
    /\ out = NoOut
    /\ ipb = IpBlockEmpty
    /\ heap = <<>>

\* inA + inB
ApplyAddressAdd ==
    /\ pc = "input"
    /\ out' = [NoOut EXCEPT !.r1 = {PAdd(inA, inB)}]
    /\ pc' = "address_add"
    /\ UNCHANGED <<heap, P, raised, call, inA, inB, excl, ipb>>

\* inA - inB
ApplyAddressSub ==
    /\ pc = "input"
    /\ out' = [NoOut EXCEPT !.r1 = {PSub(inA, inB)}]
    /\ pc' = "address_sub"
    /\ UNCHANGED <<heap, P, raised, call, inA, inB, excl, ipb>>

NextAddress == ApplyAddressAdd \/ ApplyAddressSub

SpecAddress == InitAddress /\ [][NextAddress]_vars

\* ------------------------------------------------------------- an IpBlock's life
Namespaces == {"", "ns"}
\* the other operand of |=, &= and -=
BlockOperands ==
    {IpBlockOfInterval(<<Addr(4, 1), Addr(4, 2)>>), GetAllIpsBlock(TRUE, FALSE),
     IpBlockOfInterval(<<Addr(6, 0), Addr(6, 0)>>)}
\* the exceptions argument: none, or one network of one address
OneException == {<<>>} \cup {<<e>> : e \in {c \in AllCidrs : c[1] = c[2]}}

InitIpBlock ==
    /\ P = PeerSetOf({}) /\ raised = "none" /\ call = NoCall
    /\ inA = {} /\ inB = {} /\ excl = FALSE
    /\ pc = "ipblock"
    /\ out = NoOut
    /\ ipb = IpBlockEmpty
    /\ heap = <<>>

Changed == pc' = "ipblock" /\ out' = NoOut /\ UNCHANGED <<heap, P, call, inA, inB, excl>>

\* ipb = IpBlock(namespace=namespace)
NewIpBlock(namespace) ==
    /\ ipb' = [IpBlockEmpty EXCEPT !.namespace = namespace]
    /\ raised' = "none"
    /\ Changed

\* ipb = IpBlock(cidr, exceptions, namespace=namespace)
NewIpBlockOfCidr(cidr, exceptions, namespace) ==
    /\ raised' = AddExceptions(<<cidr>>, cidr, exceptions).err
    /\ ipb' = IF raised' = "none"
              THEN [IpBlockOfCidr(cidr, exceptions) EXCEPT !.namespace = namespace]
              ELSE ipb
    /\ Changed

\* ipb = IpBlock(interval=interval, namespace=namespace)
NewIpBlockOfInterval(interval, namespace) ==
    /\ ipb' = [IpBlockOfInterval(interval) EXCEPT !.namespace = namespace]
    /\ raised' = "none"
    /\ Changed

\* ipb = IpBlock.get_all_ips_block(exclude_ipv6, exclude_ipv4)
CallGetAllIpsBlock(exclude_ipv6, exclude_ipv4) ==
    /\ IF exclude_ipv6 /\ exclude_ipv4
       THEN ipb' = ipb /\ raised' = "AssertionError"
       ELSE ipb' = GetAllIpsBlock(exclude_ipv6, exclude_ipv4) /\ raised' = "none"
    /\ Changed

\* ipb.add_cidr(cidr, exceptions)
CallAddCidr(cidr, exceptions) ==
    /\ ipb' = AddCidr(ipb, cidr, exceptions)
    /\ raised' = AddExceptions(AddInterval(ipb.ivs, cidr), cidr, exceptions).err
    /\ Changed

\* ipb.remove_cidr(cidr)
CallRemoveCidr(cidr) ==
    /\ ipb' = [ipb EXCEPT !.ivs = AddHole(ipb.ivs, cidr)]
    /\ raised' = "none"
    /\ Changed

\* ipb |= other, ipb &= other, ipb -= other
IpBlockIOr(other) == ipb' = IpbOr(ipb, other) /\ raised' = "none" /\ Changed
IpBlockIAnd(other) == ipb' = IpbAnd(ipb, other) /\ raised' = "none" /\ Changed
IpBlockISub(other) == ipb' = IpbSub(ipb, other) /\ raised' = "none" /\ Changed

\* IpBlock.copy: a new IpBlock of the same name, namespace and intervals
IpBlockCopyOf(b) ==
    [kind |-> "ipb", id |-> 0, ivs |-> b.ivs,
     name |-> IF b.name = <<>> THEN GetCidrList(<<>>) ELSE b.name,
     namespace |-> b.namespace]

\* ipb = ipb.copy()
IpBlockCopy == ipb' = IpBlockCopyOf(ipb) /\ raised' = "none" /\ Changed

\* ipb.canonical_form()
CallCanonicalForm ==
    /\ pc' = "canonical_form"
    /\ out' = [NoOut EXCEPT !.r1 = {CanonicalForm(ipb)}]
    /\ raised' = "none"
    /\ UNCHANGED <<heap, P, call, inA, inB, excl, ipb>>

NextIpBlock ==
    \/ \E namespace \in Namespaces : NewIpBlock(namespace)
    \/ \E cidr \in AllCidrs : \E exceptions \in OneException : \E namespace \in Namespaces :
          NewIpBlockOfCidr(cidr, exceptions, namespace)
    \/ \E interval \in AllIntervals(4) \cup AllIntervals(6) : \E namespace \in Namespaces :
          NewIpBlockOfInterval(interval, namespace)
    \/ \E exclude_ipv6 \in BOOLEAN : \E exclude_ipv4 \in BOOLEAN :
          CallGetAllIpsBlock(exclude_ipv6, exclude_ipv4)
    \/ \E cidr \in AllCidrs : \E exceptions \in OneException : CallAddCidr(cidr, exceptions)
    \/ \E cidr \in AllCidrs : CallRemoveCidr(cidr)
    \/ \E other \in BlockOperands : IpBlockIOr(other)
    \/ \E other \in BlockOperands : IpBlockIAnd(other)
    \/ \E other \in BlockOperands : IpBlockISub(other)
    \/ IpBlockCopy
    \/ CallCanonicalForm

SpecIpBlock == InitIpBlock /\ [][NextIpBlock]_vars

\* ------------------------------------------------------------- ClusterEP.canonical_form
\* A str is the sequence of its characters; sorted() orders strs by code
\* point, a proper prefix first.
Ord(c) ==
    CASE c = "(" -> 40 [] c = ")" -> 41 [] c = "," -> 44 [] c = "a" -> 97 [] c = "b" -> 98

RECURSIVE StrLe(_, _)
StrLe(x, y) ==
    IF x = <<>> THEN TRUE
    ELSE IF y = <<>> THEN FALSE
    ELSE IF Head(x) # Head(y) THEN Ord(Head(x)) < Ord(Head(y))
    ELSE StrLe(Tail(x), Tail(y))

\* sorted(list of str)
RECURSIVE InsertStr(_, _)
InsertStr(x, sorted) ==
    IF sorted = <<>> THEN <<x>>
    ELSE IF StrLe(x, Head(sorted)) THEN <<x>> \o sorted
    ELSE <<Head(sorted)>> \o InsertStr(x, Tail(sorted))

RECURSIVE SortedStrs(_)
SortedStrs(list) ==
    IF list = <<>> THEN <<>> ELSE InsertStr(Head(list), SortedStrs(Tail(list)))

\* ret += ',' + profile, for each profile of the list
RECURSIVE JoinProfiles(_)
JoinProfiles(list) ==
    IF list = <<>> THEN <<>> ELSE <<",">> \o Head(list) \o JoinProfiles(Tail(list))

\* ret += ',(key,value)', for each key of the list
RECURSIVE JoinLabels(_, _)
JoinLabels(keys, labels) ==
    IF keys = <<>> THEN <<>>
    ELSE <<",", "(">> \o Head(keys) \o <<",">> \o labels[Head(keys)] \o <<")">>
         \o JoinLabels(Tail(keys), labels)

\* variant: the other profiles are written in the order they were added
EPCanonicalFormUnsorted(ep) ==
    JoinProfiles(ep.profiles)
      \o JoinLabels(SortedStrs(SetToSeq(DOMAIN ep.labels)), ep.labels)

\* ClusterEP.canonical_form: the first profile, the other profiles
\* sorted, the labels sorted by key
EPCanonicalForm(ep) ==
    (IF ep.profiles # <<>>
     THEN <<",">> \o ep.profiles[1] \o JoinProfiles(SortedStrs(Tail(ep.profiles)))
     ELSE <<>>)
      \o JoinLabels(SortedStrs(SetToSeq(DOMAIN ep.labels)), ep.labels)

\* names of profiles and of label keys, label values (which can be empty)
EPNames == {<<"a">>, <<"a", "a">>}
LabelValues == {<<>>, <<"a">>}

ProfileLists == UNION {[1..n -> EPNames] : n \in 0..MaxProfiles}
LabelMaps == UNION {[keys -> LabelValues] : keys \in SUBSET EPNames}
Endpoints == [profiles : ProfileLists, labels : LabelMaps]

InitCanonical ==
    /\ P = PeerSetOf({}) /\ raised = "none" /\ call = NoCall
    /\ inA \in Endpoints
    /\ inB \in Endpoints
    /\ excl = FALSE
    /\ pc = "input"
    /\ out = NoOut
    /\ ipb = IpBlockEmpty
    /\ heap = <<>>

\* inA.canonical_form() and inB.canonical_form()
ApplyCanonicalForm ==
    /\ pc = "input"
    /\ out' = [r1 |-> {EPCanonicalForm(inA)}, r2 |-> {EPCanonicalForm(inB)},
               eq |-> EPCanonicalForm(inA) = EPCanonicalForm(inB)]
    /\ pc' = "ep_canonical_form"
    /\ UNCHANGED <<heap, P, raised, call, inA, inB, excl, ipb>>

NextCanonical == ApplyCanonicalForm

SpecCanonical == InitCanonical /\ [][NextCanonical]_vars

\* ------------------------------------------------------------- Pod.workload_name
\* str.rfind('-'): the 0-based place of the last '-', or -1
RFind(str, c) ==
    IF \E i \in 1..Len(str) : str[i] = c
    THEN (CHOOSE i \in 1..Len(str) : str[i] = c /\ \A j \in (i+1)..Len(str) : str[j] # c) - 1
    ELSE -1

\* str[k:] for k >= 0, str[:k] for any k (a negative k counts from the end)
SliceFrom(str, k) == SubSeq(str, k + 1, Len(str))
SliceTo(str, k) == IF k >= 0 THEN SubSeq(str, 1, Min(k, Len(str))) ELSE SubSeq(str, 1, Len(str) + k)

\* string.hexdigits, of the characters the names are made of
HexDigits == {"a"}
NameChars == {"a", "g", "-"}

\* Pod.__init__: workload_name, as the name it holds and the kind in brackets
WorkloadName(name, owner_name, owner_kind) ==
    IF owner_name = <<>> THEN [name |-> name, kind |-> "Pod"]
    ELSE IF owner_kind = "ReplicaSet"
    THEN LET suffix == SliceFrom(owner_name, RFind(owner_name, "-") + 1)
         IN IF \A i \in 1..Len(suffix) : suffix[i] \in HexDigits
            THEN [name |-> SliceTo(owner_name, RFind(owner_name, "-")),
                  kind |-> "Deployment-StatefulSet"]
            ELSE [name |-> owner_name, kind |-> "ReplicaSet"]
    ELSE [name |-> owner_name, kind |-> owner_kind]

OwnerNames == UNION {[1..n -> NameChars] : n \in 0..MaxNameLen}
OwnerKinds == {"ReplicaSet", "DaemonSet"}

InitPod ==
    /\ P = PeerSetOf({}) /\ raised = "none" /\ call = NoCall
    /\ inA \in OwnerNames
    /\ inB \in OwnerKinds
    /\ excl = FALSE
    /\ pc = "input"
    /\ out = NoOut
    /\ ipb = IpBlockEmpty
    /\ heap = <<>>

\* Pod(name, namespace, owner_name = inA, owner_kind = inB)
ApplyPodInit ==
    /\ pc = "input"
    /\ out' = [NoOut EXCEPT !.r1 = {WorkloadName(<<"g">>, inA, inB)}]
    /\ pc' = "pod"
    /\ UNCHANGED <<heap, P, raised, call, inA, inB, excl, ipb>>

NextPod == ApplyPodInit

SpecPod == InitPod /\ [][NextPod]_vars

\* ------------------------------------------------------------- operands as objects
\* The operators above compute with values.  Here an IpBlock member of an
\* operand is a reference into heap, the interval_set of every IpBlock
\* object, so that an in-place operator (|=, -=) changes the object it is
\* called on and every set that holds it.
Ref(k) == [IpBlockEmpty EXCEPT !.id = k]
Deref(h, p) == IF IsIpBlock(p) THEN [IpBlockEmpty EXCEPT !.ivs = h[p.id]] ELSE p
Values(h, S) == {Deref(h, p) : p \in S}

\* F of the value of x: x is computed once, as a statement that assigns
\* the result of a call to a local variable does
Strict(F(_), x) == CHOOSE y \in {F(v) : v \in {x}} : TRUE

\* copy.deepcopy of a PeerSet: a new set, a new object for each IpBlock
RECURSIVE DeepCopyLoop(_, _, _)
DeepCopyLoop(h, todo, done) ==
    IF todo = <<>> THEN [heap |-> h, set |-> done]
    ELSE LET p == Head(todo)
         IN IF IsIpBlock(p)
            THEN DeepCopyLoop(Append(h, h[p.id]), Tail(todo), done \cup {Ref(Len(h) + 1)})
            ELSE DeepCopyLoop(h, Tail(todo), done \cup {p})

\* variant: the operand itself is handed on, with the objects it holds
ShallowCopy(h, S) == [heap |-> h, set |-> S]

DeepCopy(h, S) == DeepCopyLoop(h, SetToSeq(S), {})

\* set.__ior__ / set.__or__ on references: a member of T equal to one of S
\* is not taken
RefUnion(h, S, T) == S \cup {q \in T : ~RawContains(Values(h, S), Deref(h, q))}

\* sorted(ip_blocks_set, key=IpBlock.ip_count), as Orders
RECURSIVE HeapOrders(_, _)
HeapOrders(h, ids) ==
    IF ids = {} THEN {<<>>}
    ELSE UNION {{<<x>> \o rest : rest \in HeapOrders(h, ids \ {x})} :
                  x \in {y \in ids : \A z \in ids : IpCountIvs(h[y]) <= IpCountIvs(h[z])}}

\* one overlapping block of _add_interval_to_list: intersection is a new
\* object, interval and non_overlapping_interval_list[idx] change in place
HeapOverlapStep(h, interval, list, to_add, idx) ==
    LET ip_block == list[idx]
        intersection == Len(h) + 1
        h1 == Append(h, IvsIntersect(h[ip_block], h[interval]))
        h2 == [h1 EXCEPT ![interval] = IvsDifference(@, h1[intersection])]
        changed == h2[ip_block] # h2[intersection]
    IN [heap |-> IF changed
                 THEN [h2 EXCEPT ![ip_block] = IvsDifference(@, h2[intersection])]
                 ELSE h2,
        list |-> list,
        to_add |-> IF changed THEN Append(to_add, intersection) ELSE to_add]

RECURSIVE HeapAddIntervalLoop(_, _, _, _, _)
HeapAddIntervalLoop(h, interval, list, to_add, idx) ==
    IF idx > Len(list) THEN [heap |-> h, list |-> list, to_add |-> to_add]
    ELSE IF ~IvsOverlaps(h[list[idx]], h[interval])
    THEN HeapAddIntervalLoop(h, interval, list, to_add, idx + 1)
    ELSE LET Rest(r) ==
                 IF r.heap[interval] = <<>> THEN r
                 ELSE HeapAddIntervalLoop(r.heap, interval, r.list, r.to_add, idx + 1)
         IN Strict(Rest, HeapOverlapStep(h, interval, list, to_add, idx))

\* _add_interval_to_list: interval.split() makes one new object per range
HeapAddIntervalToList(h, interval, non_overlapping_interval_list) ==
    LET Extend(r) ==
            LET rest == r.heap[interval]
            IN [heap |-> r.heap \o [i \in 1..Len(rest) |-> <<rest[i]>>],
                list |-> r.list \o [i \in 1..Len(rest) |-> Len(r.heap) + i] \o r.to_add]
    IN Strict(Extend, HeapAddIntervalLoop(h, interval, non_overlapping_interval_list, <<>>, 1))

RECURSIVE HeapAddAllToList(_, _, _)
HeapAddAllToList(h, ip_blocks, blocks_with_no_overlap) ==
    IF ip_blocks = <<>> THEN [heap |-> h, list |-> blocks_with_no_overlap]
    ELSE LET Rest(r) == HeapAddAllToList(r.heap, Tail(ip_blocks), r.list)
         IN Strict(Rest, HeapAddIntervalToList(h, Head(ip_blocks), blocks_with_no_overlap))

RECURSIVE HeapAddAllToSet(_, _, _)
HeapAddAllToSet(h, res, blocks) ==
    IF blocks = <<>> THEN res
    ELSE LET Rest(added) == HeapAddAllToSet(h, added, Tail(blocks))
         IN Strict(Rest, RefUnion(h, res, {Ref(Head(blocks))}))

\* disjoint_ip_blocks from the sort on: the loop over ip_blocks, the result
\* set and the block of all addresses when it is empty
HeapDisjointFromOrder(h, ip_blocks, exclude_ipv6) ==
    LET Result(r) ==
            LET Substitute(res) ==
                    IF res = {}
                    THEN [heap |-> Append(r.heap, GetAllIpsBlock(exclude_ipv6, FALSE).ivs),
                          res |-> {Ref(Len(r.heap) + 1)}]
                    ELSE [heap |-> r.heap, res |-> res]
            IN Strict(Substitute, HeapAddAllToSet(r.heap, {}, r.list))
    IN Strict(Result, HeapAddAllToList(h, ip_blocks, <<>>))

\* disjoint_ip_blocks up to the sort: the set the blocks are taken from
HeapDisjointBlocks(h, ip_blocks1, ip_blocks2) ==
    LET Second(c1) ==
            LET Union(c2) == [heap |-> c2.heap, set |-> RefUnion(c2.heap, c1.set, c2.set)]
            IN Strict(Union, DeepCopy(c1.heap, ip_blocks2))
    IN Strict(Second, DeepCopy(h, ip_blocks1))

\* get_ip_block_canonical_form: res = IpBlock() is a new object, and each
\* res |= elem changes it in place
RECURSIVE HeapUnionAll(_, _, _)
HeapUnionAll(h, res, blocks) ==
    IF blocks = <<>> THEN h
    ELSE HeapUnionAll([h EXCEPT ![res] = IvsUnion(@, h[Head(blocks).id])], res, Tail(blocks))

HeapCanonicalForm(h, S) == HeapUnionAll(Append(h, <<>>), Len(h) + 1, SetToSeq(IpBlocksOf(S)))

\* A | B: set.__or__ makes a new set of the same objects
HeapOr(h, A, B) == [heap |-> h, A |-> A, B |-> B, res |-> RefUnion(h, A, B)]

\* A & B and A - B: res = self.copy() (a new set of the same objects), then
\* __iand__ / __isub__ on it: both canonical forms and their intersection
\* or difference are new objects
HeapAnd(h, A, B) ==
    LET res == A
        h1 == HeapCanonicalForm(h, res)
        h2 == HeapCanonicalForm(h1, B)
        h3 == Append(h2, IvsIntersect(h2[Len(h1)], h2[Len(h2)]))
        res_peer_set_ip_block == IF h3[Len(h3)] # <<>> THEN {Ref(Len(h3))} ELSE {}
        res_without_ip_block == GetSetWithoutIpBlock(res) \cap GetSetWithoutIpBlock(B)
    IN [heap |-> h3, A |-> A, B |-> B,
        res |-> RefUnion(h3, res_without_ip_block, res_peer_set_ip_block)]

HeapSub(h, A, B) ==
    LET res == A
        h1 == HeapCanonicalForm(h, res)
        h2 == HeapCanonicalForm(h1, B)
        h3 == Append(h2, IvsDifference(h2[Len(h1)], h2[Len(h2)]))
        res_peer_set_ip_block == IF h3[Len(h3)] # <<>> THEN {Ref(Len(h3))} ELSE {}
        res_without_ip_block == GetSetWithoutIpBlock(res) \ GetSetWithoutIpBlock(B)
    IN [heap |-> h3, A |-> A, B |-> B,
        res |-> RefUnion(h3, res_without_ip_block, res_peer_set_ip_block)]

\* the interval sets of the operands' objects: two ranges, the whole of
\* IPv4 with and without a hole, all addresses and no address
HeapCands ==
    {<<(<<Addr(4, 0), Addr(4, 1)>>)>>, <<(<<Addr(4, 1), Addr(4, ipv4_highest_number)>>)>>,
     <<FullInterval(4)>>, IpBlockOfCidr(FullInterval(4), <<(<<Addr(4, 1), Addr(4, 1)>>)>>).ivs,
     GetAllIpsBlock(FALSE, FALSE).ivs, <<>>}

\* two operands that may hold one object in common; a set holds no two
\* equal members
InitPure ==
    /\ P = PeerSetOf({}) /\ raised = "none" /\ call = NoCall
    /\ \E x \in HeapCands, y \in HeapCands, z \in HeapCands : heap = <<x, y, z>>
    /\ \E blocks \in SUBSET {Ref(1), Ref(2)} : \E pods \in UpToOne({Pod(1)}) :
          inA = blocks \cup pods
    /\ \E blocks \in SUBSET {Ref(2), Ref(3)} : \E pods \in UpToOne({Pod(1)}) :
          inB = blocks \cup pods
    /\ Cardinality(Values(heap, inA)) = Cardinality(inA)
    /\ Cardinality(Values(heap, inB)) = Cardinality(inB)
    /\ excl \in BOOLEAN
    /\ pc = "input"
    /\ out = NoOut
    /\ ipb = IpBlockEmpty

FinishPure(op, r) ==
    /\ pc' = op
    /\ heap' = r.heap /\ inA' = r.A /\ inB' = r.B
    /\ IF CapacityOk(r.res)
       THEN raised' = "none" /\ out' = [NoOut EXCEPT !.r1 = r.res]
       ELSE raised' = "AssertionError" /\ out' = NoOut
    /\ UNCHANGED <<P, call, excl, ipb>>

PureOr == pc = "input" /\ FinishPure("or", HeapOr(heap, inA, inB))

PureAnd == pc = "input" /\ FinishPure("and", HeapAnd(heap, inA, inB))

PureSub == pc = "input" /\ FinishPure("sub", HeapSub(heap, inA, inB))

\* disjoint_ip_blocks(inA, inB, excl) on two sets of IpBlocks
PureDisjoint ==
    /\ pc = "input"
    /\ GetSetWithoutIpBlock(inA \cup inB) = {}
    /\ \E c \in {HeapDisjointBlocks(heap, inA, inB)} :
          \E ip_blocks \in HeapOrders(c.heap, {p.id : p \in c.set}) :
             \E r \in {HeapDisjointFromOrder(c.heap, ip_blocks, excl)} :
                /\ heap' = r.heap
                /\ out' = [NoOut EXCEPT !.r1 = r.res]
    /\ pc' = "disjoint"
    /\ UNCHANGED <<P, raised, call, inA, inB, excl, ipb>>

NextPure == PureOr \/ PureAnd \/ PureSub \/ PureDisjoint

SpecPure == InitPure /\ [][NextPure]_vars

\* ------------------------------------------------------------- claims
Concrete(S) == GetSetWithoutIpBlock(S)

\* C1: in every reachable state the PeerSet holds at most max_num_of_pods
\* concrete (non-IpBlock) members.
C1_CapacityInvariant == CapacityOk(P.members)

\* C2: an operation that brings a PeerSet from within the capacity to above
\* it ends with the capacity error (AssertionError).
C2_ExceedingRaises ==
    [][(CapacityOk(P.members) /\ ~CapacityOk(P'.members)) => raised' = "AssertionError"]_vars

\* C3: for a PeerSet P within its capacity and not changed between the two
\* calls, and a subset S of P, get_peer_set_by_indices(get_peer_interval_of(S))
\* returns a PeerSet equal to S.
C3_IndexRoundTrip ==
    (call.stage = "back" /\ CapacityOk(P.members))
        => (raised = "none" /\ PeerSetEq(call.back, call.subset))

\* C4: the members of disjoint_ip_blocks(A, B) are pairwise non-overlapping
\* (no address in two different members) and none of them is empty.
C4_DisjointMembers ==
    pc = "disjoint" =>
        /\ \A x \in out.r1 : PointsOf(x) # {}
        /\ \A x \in out.r1 : \A y \in out.r1 :
              x # y => PointsOf(x) \cap PointsOf(y) = {}

C4_Witness ==
    /\ pc = "disjoint"
    /\ \E x \in inA : \E y \in inB :
          /\ PointsOf(x) \cap PointsOf(y) # {}
          /\ ~(PointsOf(x) \subseteq PointsOf(y))
          /\ ~(PointsOf(y) \subseteq PointsOf(x))
    /\ Cardinality(out.r1) >= 3

\* C5 as claimed: the addresses of the members of disjoint_ip_blocks(A, B)
\* are the addresses of the blocks of A and B, for all A and B.
C5_UnionAlways ==
    pc = "disjoint" => Addresses(out.r1) = Addresses(inA) \cup Addresses(inB)

\* C5 amended: when A and B hold at least one address, the addresses of the
\* members of disjoint_ip_blocks(A, B) are those of A and B; when they hold
\* none, the result covers the whole address space (IPv4 only with
\* exclude_ipv6).
C5_UnionUnlessEmpty ==
    pc = "disjoint" =>
        IF Addresses(inA) \cup Addresses(inB) # {}
        THEN Addresses(out.r1) = Addresses(inA) \cup Addresses(inB)
        ELSE Addresses(out.r1) = AllAddresses(excl)

C5_Witness ==
    /\ pc = "disjoint"
    /\ Cardinality(inA) = 2 /\ Cardinality(inB) = 1
    /\ \E x \in inA : \E y \in inB :
          PointsOf(x) \cap PointsOf(y) # {} /\ ~(PointsOf(y) \subseteq PointsOf(x))
    /\ Cardinality(out.r1) >= 2
    /\ Addresses(out.r1) # AllAddresses(FALSE)

\* C6: every input block of A or B is exactly a union of members of
\* disjoint_ip_blocks(A, B): each member is wholly inside or wholly outside
\* each input block.
C6_InputsAreUnions ==
    pc = "disjoint" =>
        \A x \in inA \cup inB :
            /\ \A d \in out.r1 :
                  PointsOf(d) \subseteq PointsOf(x) \/ PointsOf(d) \cap PointsOf(x) = {}
            /\ PointsOf(x)
                 = UNION {PointsOf(d) : d \in {e \in out.r1 : PointsOf(e) \subseteq PointsOf(x)}}

C6_Witness ==
    /\ pc = "disjoint"
    /\ \E x \in inA \cup inB :
          Cardinality({d \in out.r1 : PointsOf(d) \subseteq PointsOf(x)}) >= 3

\* C7: disjoint_ip_blocks(A, B) is never empty: when no address is in A or
\* B the result is the one block of all addresses, of IPv4 only when
\* exclude_ipv6 is set.
C7_NeverEmpty ==
    pc = "disjoint" =>
        /\ out.r1 # {}
        /\ Addresses(inA) \cup Addresses(inB) = {} =>
              /\ Cardinality(out.r1) = 1
              /\ \A d \in out.r1 :
                    d.ivs = IF excl THEN <<FullInterval(4)>>
                            ELSE <<FullInterval(4), FullInterval(6)>>

C7_Witness ==
    /\ pc = "disjoint"
    /\ inA = {IpBlockEmpty} /\ inB = {}
    /\ excl
    /\ Addresses(out.r1) = AllAddresses(TRUE)

\* C8: A == B exactly when the concrete members are the same set and the
\* IpBlock members cover the same addresses, however the addresses are
\* split among the IpBlocks and whatever the IpBlocks are named.
C8_Equality ==
    pc = "eq" =>
        (out.eq <=> (Concrete(inA) = Concrete(inB) /\ Addresses(inA) = Addresses(inB)))

C8_Witness ==
    /\ pc = "eq" /\ out.eq
    /\ Concrete(inA) # {}
    /\ Cardinality(IpBlocksOf(inA)) = 2 /\ Cardinality(IpBlocksOf(inB)) = 1
    /\ \A a \in IpBlocksOf(inA) : \A b \in IpBlocksOf(inB) : a.ivs # b.ivs /\ a.name # b.name

\* C9: for |, & and -, when the operator returns, the concrete members of
\* the result are concrete(A) op concrete(B) and the addresses its IpBlocks
\* cover are addresses(A) op addresses(B).
C9_OperatorsBySetAlgebra ==
    /\ (pc = "or" /\ raised = "none") =>
          /\ Concrete(out.r1) = Concrete(inA) \cup Concrete(inB)
          /\ Addresses(out.r1) = Addresses(inA) \cup Addresses(inB)
    /\ (pc = "and" /\ raised = "none") =>
          /\ Concrete(out.r1) = Concrete(inA) \cap Concrete(inB)
          /\ Addresses(out.r1) = Addresses(inA) \cap Addresses(inB)
    /\ (pc = "sub" /\ raised = "none") =>
          /\ Concrete(out.r1) = Concrete(inA) \ Concrete(inB)
          /\ Addresses(out.r1) = Addresses(inA) \ Addresses(inB)

C9_Witness ==
    /\ pc = "and" /\ raised = "none"
    /\ Concrete(out.r1) # {} /\ Concrete(out.r1) # Concrete(inA)
    /\ Addresses(out.r1) # {}
    /\ Addresses(out.r1) # Addresses(inA) /\ Addresses(out.r1) # Addresses(inB)

\* C10: A & B == A - (A - B) under PeerSet equality.
C10_IntersectionByDifference == pc = "law" => PeerSetEq(out.r1, out.r2)

C10_Witness ==
    /\ pc = "law"
    /\ Concrete(out.r1) # {} /\ Addresses(out.r1) # {}
    /\ Addresses(out.r1) # Addresses(inA) /\ Addresses(out.r1) # Addresses(inB)
    /\ Addresses(out.r2) = Addresses(out.r1)

\* C11 as claimed: for A and B within the capacity, A | B, A & B, A - B,
\* A == B and the membership test all return without raising.
C11_AlwaysTotal ==
    pc \in {"or", "and", "sub", "eq", "in"} => raised = "none"

\* C11 amended: for A and B within the capacity, A & B, A - B, A == B and
\* the membership test return without raising, and A | B returns unless
\* the union holds more than max_num_of_pods concrete members, when it
\* raises AssertionError.
C11_TotalUnlessOverCapacity ==
    /\ pc \in {"and", "sub", "eq", "in"} => raised = "none"
    /\ pc = "or" =>
          IF Cardinality(Concrete(inA) \cup Concrete(inB)) > max_num_of_pods
          THEN raised = "AssertionError"
          ELSE raised = "none" /\ Concrete(out.r1) = Concrete(inA) \cup Concrete(inB)

C11_Witness ==
    /\ pc = "or" /\ raised = "AssertionError"
    /\ CapacityOk(inA) /\ CapacityOk(inB)
    /\ Addresses(inA) # {} /\ Addresses(inB) # {}

\* C12: the three index segments are in the order IPv4, IPv6, pods, each
\* non-empty, consecutive segments have at least one unused index between
\* them, the pod segment holds exactly max_num_of_pods indices, and
\* get_all_peers_and_ip_blocks_interval() returns exactly these three
\* intervals, unmerged.
C12_ThreeSegments ==
    call.stage = "domain" =>
        /\ min_ipv4_index <= max_ipv4_index
        /\ max_ipv4_index + 1 < min_ipv6_index
        /\ min_ipv6_index <= max_ipv6_index
        /\ max_ipv6_index + 1 < min_pod_index
        /\ min_pod_index <= max_pod_index
        /\ max_pod_index - min_pod_index + 1 = max_num_of_pods
        /\ call.intervals = << <<Idx(min_ipv4_index), Idx(max_ipv4_index)>>,
                               <<Idx(min_ipv6_index), Idx(max_ipv6_index)>>,
                               <<Idx(min_pod_index), Idx(max_pod_index)>> >>

C12_Witness ==
    /\ call.stage = "domain"
    /\ Len(call.intervals) = 3
    /\ P.members # {}

\* an interval of indices that lies inside one of the three segments
InsideSegment(interval) ==
    \E seg \in {<<min_ipv4_index, max_ipv4_index>>, <<min_ipv6_index, max_ipv6_index>>,
                 <<min_pod_index, max_pod_index>>} :
        seg[1] <= interval[1][2] /\ interval[2][2] <= seg[2]

\* C13: get_peer_set_by_indices ends with an error, and returns no PeerSet,
\* whenever one of the intervals given is not inside one of the three
\* segments (in a gap, across two segments, or above max_pod_index).
C13_OutsideSegmentsFails ==
    (call.stage = "byindices"
       /\ \E i \in 1..Len(call.intervals) : ~InsideSegment(call.intervals[i]))
        => raised # "none"

\* network x is a subnet of network y
SubnetOf(x, y) == x[1][1] = y[1][1] /\ y[1][2] <= x[1][2] /\ x[2][2] <= y[2][2]

\* C14: add_cidr(cidr, exceptions) ends with an error whenever one of the
\* exceptions is not a subnet of cidr (disjoint from it, or a strict
\* supernet of it).
C14_ExceptionOutsideFails ==
    (pc = "add_cidr" /\ \E i \in 1..Len(inB) : ~SubnetOf(inB[i], inA))
        => raised # "none"

\* the address of the family nearest to the integer n
Nearest(ver, n) == Addr(ver, Max(0, Min(HighestOf(ver), n)))

\* C15: a + k and a - k return the exact result when it is an address of
\* a's family and otherwise the nearest address of the family (the highest
\* on overflow, the lowest on underflow), and never raise.
C15_ClampsToNearest ==
    /\ pc = "address_add" => (raised = "none" /\ out.r1 = {Nearest(inA[1], inA[2] + inB)})
    /\ pc = "address_sub" => (raised = "none" /\ out.r1 = {Nearest(inA[1], inA[2] - inB)})

\* C16: whatever has been done to an IpBlock made without a name,
\* canonical_form() is the minimal CIDR list of its current intervals,
\* after the namespace's name and '_' when it has a namespace.
C16_CanonicalFormIsCidrList ==
    pc = "canonical_form" =>
        out.r1 = {IF ipb.namespace = "" THEN <<GetCidrList(ipb.ivs)>>
                  ELSE <<ipb.namespace, "_", GetCidrList(ipb.ivs)>>}

\* how many times name is among the profiles after the first
RECURSIVE CountOf(_, _)
CountOf(name, list) ==
    IF list = <<>> THEN 0
    ELSE (IF Head(list) = name THEN 1 ELSE 0) + CountOf(name, Tail(list))

SameFirstProfile(e1, e2) ==
    IF e1.profiles = <<>> \/ e2.profiles = <<>> THEN e1.profiles = e2.profiles
    ELSE e1.profiles[1] = e2.profiles[1]

SameOtherProfiles(e1, e2) ==
    \A name \in EPNames :
        CountOf(name, IF e1.profiles = <<>> THEN <<>> ELSE Tail(e1.profiles))
          = CountOf(name, IF e2.profiles = <<>> THEN <<>> ELSE Tail(e2.profiles))

C18_FilterRestrictsToMask ==
    pc = "filter" =>
        \A mask \in inA :
            /\ \A b \in IpBlocksOf(P.members) :
                  PointsOf(b) # {} /\ PointsOf(b) \subseteq PointsOf(mask)
            /\ Addresses(P.members) = Addresses(out.r1) \cap PointsOf(mask)
            /\ Concrete(P.members) = Concrete(out.r1)

C18_Witness ==
    /\ pc = "filter"
    /\ Cardinality(IpBlocksOf(out.r1)) = 2 /\ Cardinality(IpBlocksOf(P.members)) = 1
    /\ Concrete(P.members) # {}
    /\ \E b \in IpBlocksOf(out.r1) : PointsOf(b) # {} /\ \A mask \in inA : PointsOf(b) \cap PointsOf(mask) = {}
    /\ Addresses(P.members) # Addresses(out.r1)
    /\ \A b \in IpBlocksOf(P.members) : b \notin out.r1

\* the 0-based position of peer among the concrete members of S sorted by
\* full name
PositionIn(S, peer) == Cardinality({q \in Concrete(S) : q.id < peer.id})

\* the indices of the addresses of an IpBlock
IndicesOfBlock(b) ==
    {Idx((IF a[1] = 4 THEN min_ipv4_index ELSE min_ipv6_index) + a[2]) : a \in PointsOf(b)}

\* C19: P.get_peer_interval_of(S) holds exactly the index min_pod_index + i
\* of each concrete member of S that is in P, i its position among P's
\* concrete members sorted by full name, and the indices of every address
\* of every IpBlock of S, in the IPv4 or the IPv6 segment.
C19_IntervalOfExact ==
    call.stage = "interval" =>
        PointsOfIvs(call.intervals)
          = {Idx(min_pod_index + PositionIn(P.members, p)) :
                p \in Concrete(call.subset) \cap Concrete(P.members)}
            \cup UNION {IndicesOfBlock(b) : b \in IpBlocksOf(call.subset)}

\* C20: a use of the ordering (get_peer_interval_of, get_peer_set_by_indices)
\* that follows add / remove operations which changed the cardinality works
\* on the sorted list of the current concrete members.  The PeerSet is as
\* the call left it while call.stage is "interval" or "back"; an ordering
\* that no add or remove has followed is current as built.
C20_OrderingCurrentAtUse ==
    call.stage \in {"interval", "back"} =>
        P.sorted_peer_list = SortByFullName(Concrete(P.members))

\* an interval of indices inside the pod segment
InPodSegment(interval) ==
    min_pod_index <= interval[1][2] /\ interval[2][2] <= max_pod_index

\* C21: for intervals inside the segments, get_peer_set_by_indices returns
\* without raising, and the concrete peers returned are exactly those at
\* the positions of the pod-segment intervals that exist in the ordering
\* of P's concrete members (positions 0 .. n-1), whether or not P holds
\* IpBlocks or any concrete member.
C21_PodIntervalsClipped ==
    (call.stage = "byindices"
       /\ \A i \in 1..Len(call.intervals) : InsideSegment(call.intervals[i]))
        => /\ raised = "none"
           /\ Concrete(call.back)
                = {p \in Concrete(P.members) :
                     \E i \in 1..Len(call.intervals) :
                        /\ InPodSegment(call.intervals[i])
                        /\ call.intervals[i][1][2] - min_pod_index <= PositionIn(P.members, p)
                        /\ PositionIn(P.members, p) <= call.intervals[i][2][2] - min_pod_index}

\* name ends in '-' followed by one or more hexadecimal digits, the '-' at
\* place i
DashHexAt(name, i) ==
    /\ name[i] = "-" /\ i < Len(name)
    /\ \A j \in (i+1)..Len(name) : name[j] \in HexDigits

\* C22: for a Pod with an owner, workload_name holds the owner's name
\* without its last '-' and the hexadecimal digits after it when the name
\* ends that way, and the owner's whole name when it has no '-' or a
\* character after the last '-' is not a hexadecimal digit.  (A name that
\* ends in '-' is left open.)
C22_WorkloadNameStripsHexSuffix ==
    (pc = "pod" /\ inA # <<>> /\ inA[Len(inA)] # "-") =>
        \A w \in out.r1 :
            IF \E i \in 1..Len(inA) : DashHexAt(inA, i)
            THEN \A i \in 1..Len(inA) : DashHexAt(inA, i) => w.name = SubSeq(inA, 1, i - 1)
            ELSE w.name = inA

\* C23: A | B, A & B, A - B and disjoint_ip_blocks(A, B) leave their
\* operands as they were: the members of A and of B, and the interval set
\* of every IpBlock object they hold, are the same after the call.
C23_OperandsUnchanged ==
    [][pc = "input" /\ pc' # "input" =>
          /\ inA' = inA /\ inB' = inB
          /\ \A p \in IpBlocksOf(inA \cup inB) : heap'[p.id] = heap[p.id]]_vars

\* disjoint_ip_blocks has cut two overlapping blocks of the operands apart
C23_Witness ==
    /\ pc = "disjoint"
    /\ Ref(1) \in inA /\ Ref(3) \in inB
    /\ IvsOverlaps(heap[1], heap[3]) /\ heap[1] # heap[3]
    /\ Cardinality(out.r1) >= 2

\* C24: an IpBlock b is in a PeerSet exactly when one IpBlock member alone
\* covers every address of b (members that cover b only together do not
\* make it a member); any other peer is in the set exactly when the set
\* holds a peer of its full name.
C24_MembershipBySingleBlock ==
    pc = "in" =>
        \A item \in out.r1 :
            out.eq <=> IF IsIpBlock(item)
                       THEN \E peer \in IpBlocksOf(inA) : PointsOf(item) \subseteq PointsOf(peer)
                       ELSE \E peer \in Concrete(inA) : peer.id = item.id

\* b is covered by the members together, by none of them alone, and is
\* not in the set
C24_Witness ==
    /\ pc = "in"
    /\ \E item \in out.r1 :
          /\ IsIpBlock(item) /\ item.ivs # <<>>
          /\ PointsOf(item) \subseteq Addresses(inA)
          /\ ~out.eq

\* C25: a PeerSet reached by constructions, add / remove, copies, operators
\* and earlier hash or index-bridge calls has the hash of every PeerSet it
\* is equal to; here the other PeerSet is newly constructed.
C25_HashConsistentWithEq ==
    \A B \in ConstructArgs \cup {P.members} :
        (CapacityOk(B) /\ PeerSetEq(P.members, B))
            => HashInput(P) = HashInput(PeerSetOf(B))

=============================================================================
